---- MODULE Spec2Model ----
(***************************************************************************)
(* Model of eothello/play.py: the ProcessHandler engine channel (a child   *)
(* process driven over line-oriented pipes with a receive timeout, a       *)
(* liveness poll, kill and restart) and EothelloBot.get_ai_move on top of  *)
(* it.  The engine process is the environment: it may write any of a few   *)
(* byte fragments to its stdout, close its stdout, or exit, at any time.   *)
(***************************************************************************)
EXTENDS Integers, Sequences, FiniteSets, TLC

(* ------------------------------ bounds --------------------------------- *)
MaxProc == 2        \* engine processes ever spawned
MaxWrites == 2      \* fragments one engine process writes to its stdout
MaxSend == 2        \* writes to an engine's stdin
MaxText == 4        \* characters of a page's move array text
MaxScan == 4        \* characters of an argument text given to the scanner
MaxTok == 4         \* pieces of a line the engine writes
MaxGames == 1       \* games the site ever lists

(* ------------------------------ text ----------------------------------- *)
NL == "\n"
WS == {" ", NL}
\* Fragments an engine may write: its prompt (no newline), a move line, an
\* empty line.
Prompt == <<"B", "o", "a", "r", "d", " ", ">", " ">>
MoveLine == <<"a", "1", NL>>
Fragments == {Prompt, MoveLine, <<NL>>}

HasNL(s) == \E i \in 1..Len(s) : s[i] = NL
FirstNL(s) == CHOOSE i \in 1..Len(s) : s[i] = NL /\ \A j \in 1..(i-1) : s[j] # NL
\* str.endswith('\n')
EndsWithNL(s) == Len(s) > 0 /\ s[Len(s)] = NL
\* str.strip(): drop leading and trailing whitespace
RECURSIVE LStrip(_)
LStrip(s) == IF s # <<>> /\ Head(s) \in WS THEN LStrip(Tail(s)) ELSE s
RECURSIVE RStrip(_)
RStrip(s) == IF s # <<>> /\ s[Len(s)] \in WS THEN RStrip(SubSeq(s, 1, Len(s) - 1)) ELSE s
Strip(s) == RStrip(LStrip(s))

\* s starts with pat
StartsWith(s, pat) == Len(s) >= Len(pat) /\ SubSeq(s, 1, Len(pat)) = pat
\* str.replace(pat, ''): every non-overlapping occurrence, left to right
RECURSIVE Remove(_, _)
Remove(s, pat) ==
    IF s = <<>> THEN <<>>
    ELSE IF StartsWith(s, pat) THEN Remove(SubSeq(s, Len(pat) + 1, Len(s)), pat)
    ELSE <<Head(s)>> \o Remove(Tail(s), pat)

QUOTE == "\""
\* index of the first quote of s at or after i, 0 when there is none
RECURSIVE NextQuote(_, _)
NextQuote(s, i) ==
    IF i > Len(s) THEN 0 ELSE IF s[i] = QUOTE THEN i ELSE NextQuote(s, i + 1)
\* re.findall(r'"([^"]+)"', s) scanning from index i
RECURSIVE FindAllFrom(_, _)
FindAllFrom(s, i) ==
    LET a == NextQuote(s, i) IN
    IF a = 0 THEN <<>>
    ELSE LET b == NextQuote(s, a + 1) IN
         IF b = 0 THEN <<>>
         ELSE IF b = a + 1 THEN FindAllFrom(s, a + 1)
         ELSE <<SubSeq(s, a + 1, b - 1)>> \o FindAllFrom(s, b + 1)
FindAllMoves(s) == FindAllFrom(s, 1)
\* "".join(moves)
RECURSIVE JoinMoves(_)
JoinMoves(ms) == IF ms = <<>> THEN <<>> ELSE Head(ms) \o JoinMoves(Tail(ms))

\* Texts of a page's move array (between its brackets), up to MaxText
\* characters, and the positions process_game builds from them.
TextChars == {QUOTE, "f", NL}
RECURSIVE TextsUpTo(_)
TextsUpTo(n) ==
    IF n = 0 THEN {<<>>}
    ELSE LET T == TextsUpTo(n - 1) IN T \cup {t \o <<c>> : t \in T, c \in TextChars}
ArrayTexts == TextsUpTo(MaxText)
Positions == {JoinMoves(FindAllMoves(t)) : t \in ArrayTexts}

(* --------------------------- parse_game_page --------------------------- *)
Digits == {"0", "1", "2", "3", "4", "5", "6", "7", "8", "9"}
Letters == {"a", "b", "c", "d", "e", "f", "g", "h", "i", "k", "l", "n", "o",
            "r", "s", "t", "w", "x", "A", "B"}
\* \w of the re module
WordCh == Letters \cup Digits \cup {"_"}
Openers == {"[", "{", "("}
Closers == {"]", "}", ")"}

\* index of the first c in s at or after i, 0 when there is none
RECURSIVE IndexFrom(_, _, _)
IndexFrom(s, c, i) ==
    IF i > Len(s) THEN 0 ELSE IF s[i] = c THEN i ELSE IndexFrom(s, c, i + 1)
\* first index at or after i whose character is not in set S, Len(s)+1 when none
RECURSIVE SkipWhile(_, _, _)
SkipWhile(s, S, i) ==
    IF i > Len(s) THEN i ELSE IF s[i] \in S THEN SkipWhile(s, S, i + 1) ELSE i

\* group 1 of r'server_game\.initializeServerGame\s*\(\s*([^)]+)\s*\)' on a
\* page whose text after the marker's opening parenthesis is body; the
\* result is [found, group].  \s* gives one character back when the
\* argument text is all white space.
matchArgs(marker, body) ==
    LET a == SkipWhile(body, WS, 1)
        c == IndexFrom(body, ")", 1)
    IN  IF ~marker \/ c = 0 THEN [found |-> FALSE, group |-> <<>>]
        ELSE IF a < c THEN [found |-> TRUE, group |-> SubSeq(body, a, c - 1)]
        ELSE IF c > 1 THEN [found |-> TRUE, group |-> SubSeq(body, c - 1, c - 1)]
        ELSE [found |-> FALSE, group |-> <<>>]

\* re.sub(r'(\w+):', r'"\1":', s) from index i
RECURSIVE quoteKeysFrom(_, _)
quoteKeysFrom(s, i) ==
    IF i > Len(s) THEN <<>>
    ELSE IF s[i] \in WordCh
         THEN LET j == SkipWhile(s, WordCh, i) IN
              IF j <= Len(s) /\ s[j] = ":"
              THEN <<QUOTE>> \o SubSeq(s, i, j - 1) \o <<QUOTE, ":">>
                       \o quoteKeysFrom(s, j + 1)
              ELSE SubSeq(s, i, j - 1) \o quoteKeysFrom(s, j)
         ELSE <<s[i]>> \o quoteKeysFrom(s, i + 1)
quoteKeys(s) == quoteKeysFrom(s, 1)

\* re.sub(r',\s*]', ']', s) from index i
RECURSIVE dropTrailingCommasFrom(_, _)
dropTrailingCommasFrom(s, i) ==
    IF i > Len(s) THEN <<>>
    ELSE IF s[i] = ","
         THEN LET j == SkipWhile(s, WS, i + 1) IN
              IF j <= Len(s) /\ s[j] = "]"
              THEN <<"]">> \o dropTrailingCommasFrom(s, j + 1)
              ELSE <<",">> \o dropTrailingCommasFrom(s, i + 1)
         ELSE <<s[i]>> \o dropTrailingCommasFrom(s, i + 1)
dropTrailingCommas(s) == dropTrailingCommasFrom(s, 1)

\* the pre-cleaning of the argument text
preClean(s) == dropTrailingCommas(quoteKeys(s))

\* a scanner that splits at commas inside quoted runs too
scanChar_nostring(st, ch) ==
    IF ch = "\\"
    THEN [st EXCEPT !.current_param = @ \o <<ch>>, !.escape_next = TRUE]
    ELSE IF ch = QUOTE
    THEN [st EXCEPT !.current_param = @ \o <<ch>>, !.in_string = ~@]
    ELSE IF ~st.in_string /\ ch \in Openers
    THEN [st EXCEPT !.current_param = @ \o <<ch>>, !.bracket_count = @ + 1]
    ELSE IF ~st.in_string /\ ch \in Closers
    THEN [st EXCEPT !.current_param = @ \o <<ch>>, !.bracket_count = @ - 1]
    ELSE IF ch = "," /\ st.bracket_count = 0
    THEN [st EXCEPT !.params = Append(@, Strip(st.current_param)),
                    !.current_param = <<>>]
    ELSE [st EXCEPT !.current_param = @ \o <<ch>>]
\* One character of the scanner loop when escape_next is clear.  st holds
\* params, current_param, bracket_count, in_string and escape_next.
scanChar(st, ch) ==
    IF ch = "\\"
    THEN [st EXCEPT !.current_param = @ \o <<ch>>, !.escape_next = TRUE]
    ELSE IF ch = QUOTE
    THEN [st EXCEPT !.current_param = @ \o <<ch>>, !.in_string = ~@]
    ELSE IF ~st.in_string /\ ch \in Openers
    THEN [st EXCEPT !.current_param = @ \o <<ch>>, !.bracket_count = @ + 1]
    ELSE IF ~st.in_string /\ ch \in Closers
    THEN [st EXCEPT !.current_param = @ \o <<ch>>, !.bracket_count = @ - 1]
    ELSE IF ~st.in_string /\ ch = "," /\ st.bracket_count = 0
    THEN [st EXCEPT !.params = Append(@, Strip(st.current_param)),
                    !.current_param = <<>>]
    ELSE [st EXCEPT !.current_param = @ \o <<ch>>]

scanInit == [params |-> <<>>, current_param |-> <<>>, bracket_count |-> 0,
             in_string |-> FALSE, escape_next |-> FALSE]

\* the scanner loop from character i on in state st
RECURSIVE scanLoop(_, _, _)
scanLoop(s, i, st) ==
    IF i > Len(s) THEN st
    ELSE IF st.escape_next
    THEN scanLoop(s, i + 1, [st EXCEPT !.current_param = @ \o <<s[i]>>,
                                       !.escape_next = FALSE])
    ELSE scanLoop(s, i + 1, scanChar(st, s[i]))
\* scanner state after the first n characters of s
scanState(s, n) == scanLoop(SubSeq(s, 1, n), 1, scanInit)

\* the scanner loop and the flush of the last segment
scanParams(s) ==
    LET st == scanState(s, Len(s)) IN
    IF Strip(st.current_param) # <<>>
    THEN Append(st.params, Strip(st.current_param)) ELSE st.params

\* int(param) for an optionally signed run of digits
DigitVal(c) == CHOOSE n \in 0..9 : <<"0", "1", "2", "3", "4", "5", "6", "7", "8", "9">>[n + 1] = c
AllDigits(s) == s # <<>> /\ \A i \in 1..Len(s) : s[i] \in Digits
RECURSIVE NatVal(_)
NatVal(s) == IF s = <<>> THEN 0 ELSE 10 * NatVal(SubSeq(s, 1, Len(s) - 1)) + DigitVal(s[Len(s)])
Unsigned(s) == IF s # <<>> /\ Head(s) \in {"+", "-"} THEN Tail(s) ELSE s
IsInt(s) == AllDigits(Unsigned(s))
IntVal(s) == IF s # <<>> /\ Head(s) = "-" THEN 0 - NatVal(Tail(s)) ELSE NatVal(Unsigned(s))
\* float(param) for digits '.' digits with a digit on one side at least
IsFloat(s) ==
    LET u == Unsigned(s)
        d == IndexFrom(u, ".", 1)
    IN  /\ d # 0
        /\ LET ip == SubSeq(u, 1, d - 1)
               fp == SubSeq(u, d + 1, Len(u))
           IN  /\ ip = <<>> \/ AllDigits(ip)
               /\ fp = <<>> \/ AllDigits(fp)
               /\ ip # <<>> \/ fp # <<>>
\* the float's value as [sign, integer part, fraction digits without
\* trailing zeros]
FloatVal(s) ==
    LET u == Unsigned(s)
        d == IndexFrom(u, ".", 1)
        fp == SubSeq(u, d + 1, Len(u))
        RECURSIVE trim(_)
        trim(f) == IF f # <<>> /\ f[Len(f)] = "0" THEN trim(SubSeq(f, 1, Len(f) - 1)) ELSE f
        mag == [int |-> NatVal(SubSeq(u, 1, d - 1)), frac |-> trim(fp)]
    IN  [neg |-> (Head(s) = "-" /\ (mag.int # 0 \/ mag.frac # <<>>)),
         int |-> mag.int, frac |-> mag.frac]

StrV(v) == [t |-> "str", v |-> v]
\* the conversion of one segment
convertParam(param) ==
    IF StartsWith(param, <<QUOTE>>) /\ param[Len(param)] = QUOTE
    THEN StrV(SubSeq(param, 2, Len(param) - 1))
    ELSE IF StartsWith(param, <<"[">>) /\ param[Len(param)] = "]"
    THEN [t |-> "list", v |-> FindAllMoves(SubSeq(param, 2, Len(param) - 1))]
    ELSE IF IndexFrom(param, ".", 1) # 0
    THEN (IF IsFloat(param) THEN [t |-> "float", v |-> FloatVal(param)] ELSE StrV(param))
    ELSE (IF IsInt(param) THEN [t |-> "int", v |-> IntVal(param)] ELSE StrV(param))

cleanedParams(s) ==
    LET ps == scanParams(preClean(s)) IN [i \in 1..Len(ps) |-> convertParam(ps[i])]

NoneV == [t |-> "None"]
MinParams == 13
\* a mapping that fills what is there and leaves the rest None
gameInfo_partial(cp) ==
    LET at(i) == IF i <= Len(cp) THEN cp[i] ELSE NoneV IN
    [t |-> "info", game_id |-> at(1), moves |-> at(2),
     starting_position |-> at(3), winner |-> at(4), variant |-> at(5),
     game_status_text |-> at(6), player_name |-> at(7),
     role |-> at(12), turn |-> at(13)]
\* the positional mapping; None below 13 values
gameInfo(cp) ==
    IF Len(cp) >= MinParams
    THEN [t |-> "info", game_id |-> cp[1], moves |-> cp[2],
          starting_position |-> cp[3], winner |-> cp[4], variant |-> cp[5],
          game_status_text |-> cp[6], player_name |-> cp[7],
          role |-> cp[12], turn |-> cp[13]]
    ELSE NoneV

\* parse_game_page on the response pg to the page request: ok is false when
\* the request raises, marker tells whether the page holds the call at all,
\* body is the page's text after the call's opening parenthesis
parse_game_page(pg) ==
    LET m == matchArgs(pg.marker, pg.body) IN
    IF ~pg.ok \/ ~m.found THEN NoneV ELSE gameInfo(cleanedParams(m.group))

\* Pages as the server writes them: the argument list of a game whose
\* fields are src, each string in double quotes, the moves as an array of
\* quoted strings, followed by the closing parenthesis and the statement's end.
Quoted(v) == <<QUOTE>> \o v \o <<QUOTE>>
RECURSIVE JoinWith(_, _)
JoinWith(parts, sep) ==
    IF parts = <<>> THEN <<>>
    ELSE IF Len(parts) = 1 THEN parts[1]
    ELSE parts[1] \o sep \o JoinWith(Tail(parts), sep)
renderMoves(ms) ==
    <<"[">> \o JoinWith([i \in 1..Len(ms) |-> Quoted(ms[i])], <<",">>) \o <<"]">>
renderArgs(src) ==
    JoinWith(<< <<"7">>, renderMoves(src.moves), Quoted(<<"s">>), <<"0">>,
                <<"1">>, Quoted(src.status), Quoted(src.name), <<"0">>, <<"0">>,
                <<"0">>, <<"0">>, src.role, Quoted(src.turn) >>, <<",">>)
Page(src) == [ok |-> TRUE, marker |-> TRUE,
              body |-> renderArgs(src) \o <<")", ";">>, src |-> src]
\* what the page of a game with fields src says
pageFields(src) ==
    [t |-> "info", game_id |-> [t |-> "int", v |-> 7],
     moves |-> [t |-> "list", v |-> src.moves],
     starting_position |-> StrV(<<"s">>), winner |-> [t |-> "int", v |-> 0],
     variant |-> [t |-> "int", v |-> 1], game_status_text |-> StrV(src.status),
     player_name |-> StrV(src.name),
     role |-> [t |-> "int", v |-> IntVal(src.role)], turn |-> StrV(src.turn)]

Black == <<"b", "l", "a", "c", "k">>
White == <<"w", "h", "i", "t", "e">>
F5 == <<"f", "5">>
D6 == <<"d", "6">>
StrLits == {<<"o">>, <<"a", ":", "b">>, <<"x", ")">>, <<"a", ",", "]">>}
MoveLits == {<<>>, <<F5>>, <<F5, D6>>}
Fields == [moves : MoveLits, status : StrLits, name : StrLits,
           role : {<<"1">>, <<"2">>}, turn : {Black, White}]
NoSrc == [moves |-> <<>>, status |-> <<>>, name |-> <<>>, role |-> <<>>,
          turn |-> <<>>]
\* argument texts of up to MaxScan characters
ScanChars == {QUOTE, ",", "\\", "[", "]", "a", " "}
ScanTexts == UNION {[1..n -> ScanChars] : n \in 0..MaxScan}
RawPage(ok, marker, text) ==
    [ok |-> ok, marker |-> marker, body |-> text \o <<")">>, src |-> NoSrc]
ParsePages ==
    {Page(src) : src \in Fields} \cup {RawPage(TRUE, TRUE, t) : t \in ScanTexts}
        \cup {RawPage(FALSE, TRUE, <<"a">>), RawPage(TRUE, FALSE, <<"a">>)}

(* ------------------------------ state ---------------------------------- *)
VARIABLES
    page,            \* the response to a page request
    parsed,          \* locals and result of parse_game_page on it
    current_games,   \* the bot's map of tracked games
    fpc,             \* per thread: where its fetch_current_games stands
    mpc,             \* where monitor_games' main thread stands
    todo,            \* games of the cycle's snapshot not yet processed
    game_id,         \* argument of the running process_game
    game_info,       \* its parsed page
    asked,           \* positions it passed to get_ai_move
    moved,           \* make_move calls it made: <<game, move, index>>
    reply,           \* a line the engine wrote
    answer,          \* what get_ai_move makes of it
    platform,   \* sys.platform: "unix" or "win32"
    process,    \* ProcessHandler.process: 0 is None, else the instance id
    is_alive,   \* ProcessHandler.is_alive
    nproc,      \* processes spawned so far (instance ids 1..nproc)
    pstate,     \* per instance: "none", "running" or "exited" (OS view)
    killsig,    \* per instance: signal the parent ended it with
    nwritten,   \* writes that reached an engine's stdin
    nreq,       \* per instance: writes that reached its stdin
    nread,      \* per instance: whole lines recv read from its stdout
    wire,       \* the bytes of the last write to an engine's stdin
    out,        \* process.stdout: bytes in the pipe, unread
    buf,        \* process.stdout: bytes the parent's text wrapper holds
    outClosed,  \* process.stdout: the engine closed its end
    nfrag,      \* fragments the referenced process has written
    hpc,        \* position inside recv: "idle", "select", "readline", "queue"
    ret,        \* outcome of the last completed ProcessHandler call
    engine_handler, \* EothelloBot.engine_handler is set
    gpc,        \* the bot: "boot", "idle", "send", "recv", "exit", "done"
    position,   \* argument of the get_ai_move call in progress or last made
    gret,       \* outcome of the last get_ai_move call
    entryProc,  \* process referenced when that call began
    entryDead,  \* that process had exited, unnoticed, when the call began
    callSends,  \* writes to an engine's stdin made by that call
    sentTo,     \* instance the call's request was written to (0: none)
    errKind,    \* exception that call's handlers caught ("none": no handler ran)
    errProc,    \* process referenced when the handler ran
    errSpawn,   \* in the handler's restart kill returned and Popen succeeded
    retried     \* the handler wrote to an engine's stdin

pvars == <<page, parsed, reply, answer>>
mvars == <<current_games, fpc, mpc, todo, game_id, game_info, asked,
           moved>>
bvars == <<engine_handler, gpc, position, gret, entryProc, entryDead, callSends,
           sentTo, errKind, errProc, errSpawn, retried>>

hvars == <<platform, process, is_alive, nproc, pstate, killsig, nwritten, nreq,
           nread, wire, out, buf, outClosed, nfrag, hpc, ret>>

vars == <<hvars, bvars, pvars, mvars>>

Procs == 1..MaxProc

\* Exceptions: "NotStarted" is RuntimeError("Le processus n'est pas demarre"),
\* "PeerClosed" is RuntimeError("Le processus s'est ferme").
ExcClass(e) == IF e \in {"NotStarted", "PeerClosed"} THEN "RuntimeError" ELSE e

\* isinstance(e, (BrokenPipeError, OSError)): TimeoutError and
\* BrokenPipeError derive from OSError, RuntimeError does not
IsOSError(e) == e \in {"OSError", "TimeoutError", "BrokenPipeError"}

Ret(op, exc, val) == [op |-> op, exc |-> exc, val |-> val]

\* the read end of process.stdout is at end of file
AtEOF == outClosed \/ pstate[process] = "exited"

(* --------------------------- ProcessHandler ---------------------------- *)
\* The handle as a record, so that kill and start compose into restart.
Handle == [process |-> process, is_alive |-> is_alive, nproc |-> nproc,
           pstate |-> pstate, killsig |-> killsig, exc |-> "none", ok |-> TRUE,
           wrote |-> FALSE, bytes |-> <<>>]

\* start(): Popen either spawns a fresh instance or raises (caught).
StartOutcomes(h) == IF h.nproc < MaxProc THEN {TRUE, FALSE} ELSE {FALSE}
start(h, spawned) ==
    IF spawned
    THEN [h EXCEPT !.process = h.nproc + 1, !.nproc = h.nproc + 1,
                   !.pstate[h.nproc + 1] = "running",
                   !.is_alive = TRUE, !.ok = TRUE, !.exc = "none"]
    ELSE [h EXCEPT !.is_alive = FALSE, !.ok = FALSE, !.exc = "none"]

\* kill() without its finally clause
kill_nofinally(h, oc) ==
    IF h.process = 0 THEN [h EXCEPT !.exc = "none"]
    ELSE CASE oc = "noop" -> [h EXCEPT !.exc = "none"]
           [] oc = "term" -> [h EXCEPT !.pstate[h.process] = "exited",
                                      !.killsig[h.process] = "TERM",
                                      !.exc = "none"]
           [] oc = "forced" -> [h EXCEPT !.pstate[h.process] = "exited",
                                        !.killsig[h.process] = "KILL",
                                        !.exc = "none"]
           [] oc = "fault" -> [h EXCEPT !.exc = "OSError"]

\* kill(): terminate, wait 3 s, on TimeoutExpired kill and wait; the finally
\* clause clears is_alive.  "term": the process exits on SIGTERM; "forced":
\* it ignores SIGTERM and is ended by SIGKILL; "fault": terminate() raises
\* (os.kill fails) and the process keeps running.
KillOutcomes(h) ==
    IF h.process # 0 /\ h.pstate[h.process] = "running"
    THEN {"term", "forced", "fault"} ELSE {"noop"}
kill(h, oc) ==
    IF h.process = 0 THEN [h EXCEPT !.exc = "none"]
    ELSE CASE oc = "noop" -> [h EXCEPT !.is_alive = FALSE, !.exc = "none"]
           [] oc = "term" -> [h EXCEPT !.pstate[h.process] = "exited",
                                      !.killsig[h.process] = "TERM",
                                      !.is_alive = FALSE, !.exc = "none"]
           [] oc = "forced" -> [h EXCEPT !.pstate[h.process] = "exited",
                                        !.killsig[h.process] = "KILL",
                                        !.is_alive = FALSE, !.exc = "none"]
           [] oc = "fault" -> [h EXCEPT !.is_alive = FALSE, !.exc = "OSError"]

\* restart(): kill, sleep, start; an exception of kill propagates.
restart(h, oc, spawned) ==
    LET k == kill(h, oc) IN
    IF k.exc # "none" THEN [k EXCEPT !.ok = FALSE] ELSE start(k, spawned)

\* check_alive() that never sees an exit code
check_alive_blind(h) == [h EXCEPT !.ok = (h.process # 0)]

\* check_alive(): poll the process; an exit code clears is_alive.
check_alive(h) ==
    IF h.process = 0 THEN [h EXCEPT !.ok = FALSE]
    ELSE IF h.pstate[h.process] = "exited"
         THEN [h EXCEPT !.is_alive = FALSE, !.ok = FALSE]
         ELSE [h EXCEPT !.ok = TRUE]

\* Store the handle; a new Popen object comes with fresh, empty streams.
SetHandle(h) ==
    /\ process' = h.process
    /\ is_alive' = h.is_alive
    /\ nproc' = h.nproc
    /\ pstate' = h.pstate
    /\ killsig' = h.killsig
    /\ IF h.process # process
       THEN /\ out' = <<>> /\ buf' = <<>> /\ outClosed' = FALSE /\ nfrag' = 0
            /\ nread' = nread
       ELSE UNCHANGED <<out, buf, nread, outClosed, nfrag>>

\* send(data): what is written (a newline appended when absent)
Normalise(data) == IF EndsWithNL(data) THEN data ELSE data \o <<NL>>
\* sendline(data): data + '\n' if not data.endswith('\n') else data
SendlineArg(data) == IF ~EndsWithNL(data) THEN data \o <<NL>> ELSE data

\* send() guarded by the process reference alone
send_noguard(h, data) ==
    IF h.process = 0
    THEN [h EXCEPT !.exc = "NotStarted", !.wrote = FALSE]
    ELSE IF h.pstate[h.process] = "exited"
         THEN [h EXCEPT !.is_alive = FALSE, !.exc = "BrokenPipeError", !.wrote = FALSE]
         ELSE [h EXCEPT !.exc = "none", !.wrote = TRUE, !.bytes = Normalise(data)]

\* send(data): RuntimeError when not started; a write to a process that has
\* exited raises BrokenPipeError, which clears is_alive and is re-raised.
send(h, data) ==
    IF ~h.is_alive \/ h.process = 0
    THEN [h EXCEPT !.exc = "NotStarted", !.wrote = FALSE]
    ELSE IF h.pstate[h.process] = "exited"
         THEN [h EXCEPT !.is_alive = FALSE, !.exc = "BrokenPipeError", !.wrote = FALSE]
         ELSE [h EXCEPT !.exc = "none", !.wrote = TRUE, !.bytes = Normalise(data)]

\* The write of send reaching the engine's stdin.
Transmit(h) ==
    IF h.wrote
    THEN /\ nwritten' = nwritten + 1
         /\ nreq' = [nreq EXCEPT ![h.process] = @ + 1]
         /\ wire' = h.bytes
    ELSE UNCHANGED <<nwritten, nreq, wire>>

\* recv's guard
recvClosed(alive, proc) == ~alive \/ proc = 0

\* select.select([stdout], [], [], timeout): readable when the pipe holds
\* bytes or is at end of file; bytes held by the text wrapper are not seen.
SelectReadable(o, eof) == o # <<>> \/ eof

\* stdout.readline() of the text wrapper over the unbuffered pipe: a line
\* already held is returned without reading; otherwise all bytes of the
\* pipe are read, and the call returns at a newline or at end of file and
\* blocks (avail = FALSE) when there is neither.
readline(b, o, eof) ==
    IF HasNL(b)
    THEN [avail |-> TRUE, data |-> SubSeq(b, 1, FirstNL(b)),
          buf |-> SubSeq(b, FirstNL(b) + 1, Len(b)), out |-> o]
    ELSE LET all == b \o o IN
         IF HasNL(all)
         THEN [avail |-> TRUE, data |-> SubSeq(all, 1, FirstNL(all)),
               buf |-> SubSeq(all, FirstNL(all) + 1, Len(all)), out |-> <<>>]
         ELSE IF eof
              THEN [avail |-> TRUE, data |-> all, buf |-> <<>>, out |-> <<>>]
              ELSE [avail |-> FALSE, data |-> <<>>, buf |-> b, out |-> o]

\* recv's except clause: is_alive after exception e
recvExcept(e, alive) == IF IsOSError(e) THEN FALSE ELSE alive

\* recv after readline returned data: a non-empty read is returned
\* stripped, an empty read raises RuntimeError.
recvData(data) ==
    IF data # <<>> THEN [exc |-> "none", val |-> Strip(data)]
    ELSE [exc |-> "PeerClosed", val |-> <<>>]

\* recv() entry: RuntimeError when not started, else the platform's wait.
RecvEnter ==
    /\ hpc = "idle"
    /\ IF recvClosed(is_alive, process)
       THEN /\ ret' = Ret("recv", "NotStarted", <<>>)
            /\ hpc' = "idle"
       ELSE /\ hpc' = IF platform = "win32" THEN "queue" ELSE "select"
            /\ ret' = Ret("recv", "pending", <<>>)
    /\ UNCHANGED <<platform, process, is_alive, nproc, pstate, killsig, nwritten, nreq,
                   wire, out, buf, nread, outClosed, nfrag>>

RecvFinish(exc, val, r) ==
    /\ hpc' = "idle"
    /\ ret' = Ret("recv", exc, val)
    /\ is_alive' = recvExcept(exc, is_alive)
    /\ buf' = r.buf
    /\ out' = r.out
    /\ nread' = IF HasNL(r.data) THEN [nread EXCEPT ![process] = @ + 1] ELSE nread
    /\ UNCHANGED <<platform, process, nproc, pstate, killsig, nwritten, nreq, wire,
                   outClosed, nfrag>>

Unread == [avail |-> FALSE, data |-> <<>>, buf |-> buf, out |-> out]

\* Unix: select reports the pipe readable
SelectReady ==
    /\ hpc = "select"
    /\ SelectReadable(out, AtEOF)
    /\ hpc' = "readline"
    /\ UNCHANGED <<platform, process, is_alive, nproc, pstate, killsig, nwritten, nreq,
                   wire, out, buf, nread, outClosed, nfrag, ret>>

\* Unix: select times out with nothing readable
SelectTimeout ==
    /\ hpc = "select"
    /\ ~SelectReadable(out, AtEOF)
    /\ RecvFinish("TimeoutError", <<>>, Unread)

\* Unix: readline returns
ReadlineReturn ==
    /\ hpc = "readline"
    /\ LET r == readline(buf, out, AtEOF) IN
       /\ r.avail
       /\ RecvFinish(recvData(r.data).exc, recvData(r.data).val, r)

\* win32: the reader thread's readline returned and result_queue.get got it
QueueGet ==
    /\ hpc = "queue"
    /\ LET r == readline(buf, out, AtEOF) IN
       /\ r.avail
       /\ RecvFinish(recvData(r.data).exc, recvData(r.data).val, r)

\* win32: result_queue.get times out while the reader thread is blocked
QueueTimeout ==
    /\ hpc = "queue"
    /\ ~readline(buf, out, AtEOF).avail
    /\ RecvFinish("TimeoutError", <<>>, Unread)

RecvStep == SelectReady \/ SelectTimeout \/ ReadlineReturn \/ QueueGet \/ QueueTimeout

(* ------------------------------ engine --------------------------------- *)
\* The engine process referenced by the handle writes a fragment.
EngineWrite ==
    /\ process # 0 /\ pstate[process] = "running" /\ ~outClosed
    /\ nfrag < MaxWrites
    /\ \E f \in Fragments : out' = out \o f
    /\ nfrag' = nfrag + 1
    /\ UNCHANGED <<platform, process, is_alive, nproc, pstate, killsig, nwritten, nreq,
                   wire, buf, nread, outClosed, hpc, ret>>

\* The engine closes its stdout and keeps running.
EngineClose ==
    /\ process # 0 /\ pstate[process] = "running" /\ ~outClosed
    /\ outClosed' = TRUE
    /\ UNCHANGED <<platform, process, is_alive, nproc, pstate, killsig, nwritten, nreq,
                   wire, out, buf, nread, nfrag, hpc, ret>>

\* An engine process exits on its own.
EngineExit ==
    /\ \E p \in Procs :
          /\ pstate[p] = "running"
          /\ pstate' = [pstate EXCEPT ![p] = "exited"]
    /\ UNCHANGED <<platform, process, is_alive, nproc, killsig, nwritten, nreq,
                   wire, out, buf, nread, outClosed, nfrag, hpc, ret>>

Engine == EngineWrite \/ EngineClose \/ EngineExit

(* ------------------- ProcessHandler used directly ---------------------- *)
ClientData == {<<>>, <<"f", "5">>, <<"f", "5", NL>>}

HStart ==
    /\ hpc = "idle"
    /\ \E sp \in StartOutcomes(Handle) :
          LET h == start(Handle, sp) IN
          /\ SetHandle(h)
          /\ ret' = Ret("start", h.exc, <<>>)
    /\ UNCHANGED <<platform, nwritten, nreq, wire, hpc>>

HSend ==
    /\ hpc = "idle"
    /\ nwritten < MaxSend
    /\ \E data \in ClientData, line \in BOOLEAN :
          LET h == send(Handle, IF line THEN SendlineArg(data) ELSE data) IN
          /\ SetHandle(h)
          /\ Transmit(h)
          /\ ret' = Ret("send", h.exc, <<>>)
    /\ UNCHANGED <<platform, hpc>>

HCheckAlive ==
    /\ hpc = "idle"
    /\ LET h == check_alive(Handle) IN
          /\ SetHandle(h)
          /\ ret' = Ret("check_alive", IF h.ok THEN "none" ELSE "dead", <<>>)
    /\ UNCHANGED <<platform, nwritten, nreq, wire, hpc>>

HKill ==
    /\ hpc = "idle"
    /\ \E oc \in KillOutcomes(Handle) :
          LET h == kill(Handle, oc) IN
          /\ SetHandle(h)
          /\ ret' = Ret("kill", h.exc, <<>>)
    /\ UNCHANGED <<platform, nwritten, nreq, wire, hpc>>

HRestart ==
    /\ hpc = "idle"
    /\ \E oc \in KillOutcomes(Handle) :
       \E sp \in StartOutcomes(kill(Handle, oc)) :
          LET h == restart(Handle, oc, sp) IN
          /\ SetHandle(h)
          /\ ret' = Ret("restart", h.exc, <<>>)
    /\ UNCHANGED <<platform, nwritten, nreq, wire, hpc>>

HInit ==
    /\ platform \in {"unix", "win32"}
    /\ process = 0
    /\ is_alive = FALSE
    /\ nproc = 0
    /\ pstate = [p \in Procs |-> "none"]
    /\ killsig = [p \in Procs |-> "none"]
    /\ nwritten = 0
    /\ nreq = [p \in Procs |-> 0]
    /\ nread = [p \in Procs |-> 0]
    /\ wire = <<>>
    /\ out = <<>>
    /\ buf = <<>>
    /\ outClosed = FALSE
    /\ nfrag = 0
    /\ hpc = "idle"
    /\ ret = Ret("none", "none", <<>>)

BInit ==
    /\ engine_handler = FALSE
    /\ gpc = "boot"
    /\ position = <<>>
    /\ gret = [kind |-> "none", val |-> <<>>]
    /\ entryProc = 0
    /\ entryDead = FALSE
    /\ callSends = 0
    /\ sentTo = 0
    /\ errKind = "none"
    /\ errProc = 0
    /\ errSpawn = FALSE
    /\ retried = FALSE

\* no page is being parsed
NoPage == [ok |-> FALSE, marker |-> FALSE, body |-> <<>>, src |-> NoSrc]
NoParse == [done |-> FALSE, args |-> <<>>, pre |-> <<>>, params |-> <<>>,
            info |-> NoneV]
PIdle == page = NoPage /\ parsed = NoParse /\ reply = <<>> /\ answer = [kind |-> "none", val |-> <<>>]

\* monitor_games has not begun
Games == 1..MaxGames
Threads == {"main", "refresh"}
Absent == [t |-> "absent"]
Entry(color, count) == [t |-> "entry", color |-> color, last_move_count |-> count]
MIdle ==
    /\ current_games = [g \in Games |-> Absent]
    /\ fpc = [t \in Threads |-> "off"]
    /\ mpc = "init" /\ todo = {} /\ game_id = 0 /\ game_info = NoneV
    /\ asked = <<>> /\ moved = <<>>

Init == HInit /\ BInit /\ PIdle /\ MIdle

HNext == (HStart \/ HSend \/ RecvEnter \/ RecvStep \/ HCheckAlive \/ HKill
            \/ HRestart \/ Engine) /\ UNCHANGED <<bvars, pvars, mvars>>

SpecH == Init /\ [][HNext]_vars

(* ----------------------------- EothelloBot ----------------------------- *)
GRet(kind, val) == [kind |-> kind, val |-> val]

\* get_ai_move's use of the line interactive returned
moveOf(line) ==
    IF line # <<>>
    THEN LET move == Remove(line, Prompt) IN
         IF Len(move) # 2 THEN GRet("None", <<>>) ELSE GRet("move", move)
    ELSE GRet("None", <<>>)

\* an except clause whose restart is not wrapped in try/except
onError_unguarded(h, oc, spawned) == restart(h, oc, spawned)
\* an except clause that does not restart
onError_norestart(h, oc, spawned) == [h EXCEPT !.exc = "none"]
\* an except clause that sends the position again after restarting
onError_resend(h, oc, spawned) ==
    LET r == restart(h, oc, spawned) IN
    [r EXCEPT !.exc = "none", !.wrote = r.ok, !.bytes = <<NL>>]

\* an except clause that marks the channel alive again and keeps the process
onError_revive(h, oc, spawned) == [h EXCEPT !.is_alive = TRUE, !.exc = "none"]
\* the except clauses of get_ai_move: try: restart() except: pass
onError(h, oc, spawned) == [restart(h, oc, spawned) EXCEPT !.exc = "none"]

\* what get_ai_move hands its caller after an except clause ran
afterError(h) == IF h.exc # "none" THEN GRet("raise", <<>>) ELSE GRet("None", <<>>)

\* start_engine(): build the handler and start it
StartEngine ==
    /\ gpc = "boot"
    /\ \E sp \in StartOutcomes(Handle) :
          LET h == start(Handle, sp) IN
          /\ SetHandle(h)
          /\ gpc' = IF h.ok THEN "idle" ELSE "exit"
    /\ engine_handler' = TRUE
    /\ UNCHANGED <<platform, nwritten, nreq, wire, hpc, ret, position, gret, entryProc,
                   entryDead, callSends, sentTo, errKind, errProc, errSpawn, retried>>

\* no except clause ran
NoError == errKind' = "none" /\ errProc' = 0 /\ errSpawn' = FALSE /\ retried' = FALSE

\* get_ai_move returns after its except clause for exception kind ran
\* restart on handle h; sends is the number of writes the call made so far
GamFail(h, kind, sends) ==
    \E oc \in KillOutcomes(h) : \E sp \in StartOutcomes(kill(h, oc)) :
        LET e == onError([h EXCEPT !.wrote = FALSE], oc, sp) IN
        /\ SetHandle(e)
        /\ Transmit(e)
        /\ callSends' = sends + (IF e.wrote THEN 1 ELSE 0)
        /\ retried' = e.wrote
        /\ gret' = afterError(e)
        /\ errKind' = kind
        /\ errProc' = h.process
        /\ errSpawn' = (oc # "fault" /\ sp)
        /\ gpc' = "idle"

\* a first guard that looks at the handler only
notStarted_handlerOnly(handlerSet, alive) == ~handlerSet
\* the first guard of get_ai_move:
\* not self.engine_handler or not self.engine_handler.is_alive
notStarted(handlerSet, alive) == ~handlerSet \/ ~alive

\* get_ai_move(position) up to the call of interactive: the guard, the
\* liveness check and the restart of an engine found dead
GamBeginWith(pos) ==
    /\ gpc = "idle" /\ hpc = "idle"
    /\ nwritten < MaxSend
    /\ position' = pos
    /\ entryProc' = process
    /\ entryDead' = (is_alive /\ process # 0 /\ pstate[process] = "exited")
    /\ IF notStarted(engine_handler, is_alive)
       THEN /\ gret' = GRet("None", <<>>)
            /\ gpc' = "idle"
            /\ callSends' = 0 /\ NoError
            /\ UNCHANGED <<process, is_alive, nproc, pstate, killsig, out, buf, nread,
                           outClosed, nfrag, nwritten, nreq, wire>>
       ELSE LET c == check_alive(Handle) IN
            IF c.ok
            THEN /\ SetHandle(c)
                 /\ gpc' = "send"
                 /\ callSends' = 0 /\ NoError
                 /\ UNCHANGED <<gret, nwritten, nreq, wire>>
            ELSE \E oc \in KillOutcomes(c) : \E sp \in StartOutcomes(kill(c, oc)) :
                    LET r == restart(c, oc, sp) IN
                    IF r.exc # "none"
                    THEN GamFail(r, r.exc, 0)
                    ELSE /\ SetHandle(r)
                         /\ callSends' = 0 /\ NoError
                         /\ UNCHANGED <<nwritten, nreq, wire>>
                         /\ IF r.ok THEN gpc' = "send" /\ gret' = gret
                            ELSE gpc' = "idle" /\ gret' = GRet("None", <<>>)
    /\ sentTo' = 0
    /\ UNCHANGED <<platform, hpc, ret, engine_handler>>

\* get_ai_move called with a position a page can give
GamBegin == \E pos \in Positions : GamBeginWith(pos)

\* interactive(position): send, then enter recv
GamSend ==
    /\ gpc = "send"
    /\ LET h == send(Handle, position) IN
       IF h.exc # "none"
       THEN /\ GamFail(h, h.exc, callSends)
            /\ UNCHANGED <<hpc, ret, sentTo>>
       ELSE /\ SetHandle(h)
            /\ Transmit(h)
            /\ callSends' = callSends + 1
            /\ sentTo' = h.process
            /\ hpc' = IF platform = "win32" THEN "queue" ELSE "select"
            /\ ret' = Ret("recv", "pending", <<>>)
            /\ gpc' = "recv"
            /\ UNCHANGED <<gret, errKind, errProc, errSpawn, retried>>
    /\ UNCHANGED <<platform, engine_handler, position, entryProc, entryDead>>

\* the wait inside interactive's recv
GamRecv == RecvStep /\ UNCHANGED bvars

\* get_ai_move after interactive returned or raised
GamFinish ==
    /\ gpc = "recv" /\ hpc = "idle"
    /\ IF ret.exc # "none"
       THEN GamFail(Handle, ret.exc, callSends)
       ELSE /\ gret' = moveOf(ret.val)
            /\ gpc' = "idle"
            /\ UNCHANGED <<process, is_alive, nproc, pstate, killsig, out, buf, nread,
                           outClosed, nfrag, nwritten, nreq, wire, callSends, errKind,
                           errProc, errSpawn, retried>>
    /\ UNCHANGED <<platform, hpc, ret, engine_handler, position, entryProc,
                   entryDead, sentTo>>

\* KeyboardInterrupt while the main loop sleeps
Interrupt ==
    /\ gpc = "idle"
    /\ gpc' = "exit"
    /\ UNCHANGED <<hvars, engine_handler, position, gret, entryProc, entryDead,
                   callSends, sentTo, errKind, errProc, errSpawn, retried>>

\* cleanup(), the finally clause of main
Cleanup ==
    /\ gpc = "exit"
    /\ \E oc \in KillOutcomes(Handle) :
          LET h == IF engine_handler THEN kill(Handle, oc) ELSE Handle IN
          /\ SetHandle(h)
          /\ ret' = Ret("kill", h.exc, <<>>)
    /\ gpc' = "done"
    /\ UNCHANGED <<platform, nwritten, nreq, wire, hpc, engine_handler, position, gret,
                   entryProc, entryDead, callSends, sentTo, errKind, errProc,
                   errSpawn, retried>>

Next ==
    \/ StartEngine /\ UNCHANGED <<pvars, mvars>>
    \/ GamBegin /\ UNCHANGED <<pvars, mvars>>
    \/ GamSend /\ UNCHANGED <<pvars, mvars>>
    \/ GamRecv /\ UNCHANGED <<pvars, mvars>>
    \/ GamFinish /\ UNCHANGED <<pvars, mvars>>
    \/ Interrupt /\ UNCHANGED <<pvars, mvars>>
    \/ Cleanup /\ UNCHANGED <<pvars, mvars>>
    \/ Engine /\ UNCHANGED <<bvars, pvars, mvars>>

Spec == Init /\ [][Next]_vars

\* An engine that answers a request with at most one line, at any time
\* after the request was written: the lines it has written (those recv
\* read and those still in the pipe or in the text wrapper) never
\* outnumber the requests written to it.
NLs(s) == Cardinality({i \in 1..Len(s) : s[i] = NL})
EngineReply ==
    /\ EngineWrite
    /\ nread[process] + NLs(buf \o out') <= nreq[process]
ReplyNext ==
    \/ StartEngine /\ UNCHANGED <<pvars, mvars>>
    \/ GamBegin /\ UNCHANGED <<pvars, mvars>>
    \/ GamSend /\ UNCHANGED <<pvars, mvars>>
    \/ GamRecv /\ UNCHANGED <<pvars, mvars>>
    \/ GamFinish /\ UNCHANGED <<pvars, mvars>>
    \/ EngineReply /\ UNCHANGED <<bvars, pvars, mvars>>
    \/ EngineClose /\ UNCHANGED <<bvars, pvars, mvars>>
    \/ EngineExit /\ UNCHANGED <<bvars, pvars, mvars>>
SpecReply == Init /\ [][ReplyNext]_vars

\* select's timeout, result_queue.get's timeout and the return of a read
\* that has data are not delayed forever.
FairSpecH == SpecH /\ WF_vars(RecvStep /\ UNCHANGED <<bvars, pvars, mvars>>)

(* ----------------------- parse_game_page applied ----------------------- *)
\* parse_game_page on the page, its locals kept: the captured argument
\* text, the pre-cleaned text, the scanner's segments and the result
parseLocals(pg) ==
    LET m == matchArgs(pg.marker, pg.body)
        pre == preClean(m.group)
    IN  [done |-> TRUE, args |-> m.group, pre |-> pre,
         params |-> scanParams(pre), info |-> parse_game_page(pg)]
Parse ==
    /\ ~parsed.done
    /\ parsed' = parseLocals(page)
    /\ UNCHANGED <<page, reply, answer, hvars, bvars, mvars>>

ParseInit ==
    /\ HInit /\ BInit /\ MIdle /\ page \in ParsePages /\ parsed = NoParse
    /\ reply = <<>> /\ answer = GRet("none", <<>>)
ParseNext == Parse
SpecParse == ParseInit /\ [][ParseNext]_vars

(* ------------------- get_ai_move's reading of a line ------------------- *)
\* lines of up to MaxTok pieces, ended by a newline
Tokens == {Prompt, <<"a">>, <<"1">>, <<"x">>, <<" ">>}
RECURSIVE Concat(_)
Concat(parts) == IF parts = <<>> THEN <<>> ELSE Head(parts) \o Concat(Tail(parts))
ReplyLines == {Concat(ts) \o <<NL>> : ts \in UNION {[1..n -> Tokens] : n \in 0..MaxTok}}

\* interactive returns the line that readline read, trimmed by recv, and
\* get_ai_move makes a move or None of it
Answer ==
    /\ answer.kind = "none"
    /\ answer' = moveOf(recvData(reply).val)
    /\ UNCHANGED <<reply, page, parsed, hvars, bvars, mvars>>

MoveInit ==
    /\ HInit /\ BInit /\ MIdle /\ page = NoPage /\ parsed = NoParse
    /\ reply \in ReplyLines /\ answer = GRet("none", <<>>)
MoveNext == Answer
SpecMove == MoveInit /\ [][MoveNext]_vars

(* --------------------------- monitor_games ----------------------------- *)
\* pages the site serves for a game: our turn as black, the opponent's turn
\* when we are white, our turn as white, a page with 12 arguments, a page
\* without the call, a failed request
ShortArgs == JoinWith([i \in 1..(MinParams - 1) |-> <<"1">>], <<",">>)
MonFields ==
    {[moves |-> <<F5, D6>>, status |-> <<"o">>, name |-> <<"o">>, role |-> rt[1],
      turn |-> rt[2]] :
        rt \in {<< <<"1">>, Black >>, << <<"2">>, Black >>, << <<"2">>, White >>}}
MonPages ==
    {Page(src) : src \in MonFields}
        \cup {RawPage(TRUE, TRUE, ShortArgs), RawPage(TRUE, FALSE, <<"a">>),
              RawPage(FALSE, TRUE, <<"a">>)}

\* what parse_game_page makes of them
MonParses == {[page |-> pg, parsed |-> parseLocals(pg)] : pg \in MonPages}

\* game_info['role'] == 1
IsOne(v) ==
    \/ v.t = "int" /\ v.v = 1
    \/ v.t = "float" /\ v.v = [neg |-> FALSE, int |-> 1, frac |-> <<>>]
our_color(info) == IF IsOne(info.role) THEN Black ELSE White
\* game_info['turn'] == our_color
isOurTurn(info) == info.turn = StrV(our_color(info))
\* len() and "".join() of the moves; a number has neither
HasLen(v) == v.t \in {"list", "str"}
lenOf(v) == Len(v.v)
joined(v) == IF v.t = "list" THEN JoinMoves(v.v) ELSE v.v

\* a move index that counts from 0
move_index_from0(info) == lenOf(info.moves)
\* move_index = len(game_info['moves']) + 1
move_index(info) == lenOf(info.moves) + 1

Keys(m) == {g \in Games : m[g] # Absent}
Fresh == Entry(NoneV, 0)
\* a key the entry does not hold
Unset == [t |-> "unset"]

\* monitor_games starts the refresh thread and begins its own first fetch
MonStart ==
    /\ gpc = "idle" /\ mpc = "init"
    /\ mpc' = "fetch"
    /\ fpc' = [t \in Threads |-> "idle"]
    /\ UNCHANGED <<hvars, bvars, current_games, todo, game_id,
                   game_info, asked, moved>>

\* fetch_current_games run by thread t: the request fails and the map is
\* left alone, or the new map holds a fresh entry for every listed game,
\* the tracked entry itself for a listed game that is tracked, and nothing
\* else.  The refresh thread sleeps and fetches again, the main thread goes
\* on to its loop.
fetch_current_games(m, listed) ==
    [g \in Games |-> IF g \notin listed THEN Absent
                     ELSE IF m[g] # Absent THEN m[g] ELSE Fresh]
\* a refresh thread that also writes a line to the engine
Fetch_asks(t) ==
    /\ fpc[t] = "idle" /\ t = "refresh"
    /\ nwritten < MaxSend /\ is_alive /\ process # 0
    /\ Transmit([Handle EXCEPT !.wrote = TRUE, !.bytes = <<NL>>])
    /\ UNCHANGED <<platform, process, is_alive, nproc, pstate, killsig, out, buf, nread,
                   outClosed, nfrag, hpc, ret, bvars, mvars>>
Fetch(t) ==
    /\ fpc[t] = "idle"
    /\ \/ UNCHANGED current_games
       \/ \E listed \in SUBSET Games :
             current_games' = fetch_current_games(current_games, listed)
    /\ fpc' = [fpc EXCEPT ![t] = IF t = "main" THEN "off" ELSE "idle"]
    /\ mpc' = IF t = "main" THEN "cycle" ELSE mpc
    /\ UNCHANGED <<hvars, bvars, todo, game_id, game_info, asked, moved>>

\* a cycle of the main loop: the snapshot of the tracked games
CycleBegin ==
    /\ mpc = "cycle" /\ gpc = "idle"
    /\ Keys(current_games) # {}
    /\ todo' = Keys(current_games)
    /\ mpc' = "next"
    /\ UNCHANGED <<hvars, bvars, current_games, fpc, game_id,
                   game_info, asked, moved>>

\* the snapshot is exhausted: sleep until the next cycle
CycleEnd ==
    /\ mpc = "next" /\ todo = {}
    /\ mpc' = "cycle"
    /\ game_id' = 0 /\ game_info' = NoneV /\ asked' = <<>> /\ moved' = <<>>
    /\ page' = NoPage /\ parsed' = NoParse
    /\ UNCHANGED <<hvars, bvars, current_games, fpc, todo, reply, answer>>

\* process_game returns
pgReturn(g) == todo' = todo \ {g} /\ mpc' = "next"

\* process_game(g) up to the membership test: the page is fetched and
\* parsed, None ends the call
PgParse ==
    /\ mpc = "next"
    /\ \E g \in todo : \E p \in MonParses :
          /\ game_id' = g
          /\ page' = p.page /\ parsed' = p.parsed
          /\ game_info' = p.parsed.info
          /\ IF p.parsed.info = NoneV THEN pgReturn(g)
             ELSE /\ mpc' = IF current_games[g] = Absent THEN "insert" ELSE "color"
                  /\ todo' = todo
    /\ asked' = <<>> /\ moved' = <<>>
    /\ UNCHANGED <<hvars, bvars, current_games, fpc, reply, answer>>

\* self.current_games[game_id] = {}
PgInsert ==
    /\ mpc = "insert"
    /\ current_games' = [current_games EXCEPT ![game_id] = Entry(Unset, -1)]
    /\ mpc' = "color"
    /\ UNCHANGED <<hvars, bvars, fpc, todo, game_id, game_info, asked,
                   moved>>

\* self.current_games[game_id]['color'] = our_color, the move count and the
\* test of the turn; KeyError and TypeError end the call
PgColor ==
    /\ mpc = "color"
    /\ IF current_games[game_id] = Absent
       THEN pgReturn(game_id) /\ UNCHANGED current_games
       ELSE /\ current_games' =
                   [current_games EXCEPT ![game_id].color =
                                             StrV(our_color(game_info))]
            /\ IF ~HasLen(game_info.moves) THEN pgReturn(game_id)
               ELSE /\ mpc' = IF isOurTurn(game_info) THEN "ask" ELSE "count"
                    /\ todo' = todo
    /\ UNCHANGED <<hvars, bvars, fpc, game_id, game_info, asked, moved>>

\* not our turn: the move count is stored
PgCount ==
    /\ mpc = "count"
    /\ current_games' =
           IF current_games[game_id] = Absent THEN current_games
           ELSE [current_games EXCEPT
                    ![game_id].last_move_count = lenOf(game_info.moves)]
    /\ pgReturn(game_id)
    /\ UNCHANGED <<hvars, bvars, fpc, game_id, game_info, asked, moved>>

\* our turn: get_ai_move is called with the joined moves
PgAsk ==
    /\ mpc = "ask"
    /\ GamBeginWith(joined(game_info.moves))
    /\ asked' = Append(asked, joined(game_info.moves))
    /\ mpc' = "call"
    /\ UNCHANGED <<current_games, fpc, todo, game_id, game_info, moved>>

MonSend == mpc = "call" /\ GamSend /\ UNCHANGED mvars
MonRecv == GamRecv /\ UNCHANGED mvars
MonFinish == mpc = "call" /\ GamFinish /\ UNCHANGED mvars

\* the record of the get_ai_move call ends with the call
callReturned ==
    /\ position' = <<>> /\ gret' = GRet("none", <<>>)
    /\ entryProc' = 0 /\ entryDead' = FALSE /\ callSends' = 0 /\ sentTo' = 0
    /\ NoError
    /\ ret' = Ret("none", "none", <<>>)

\* get_ai_move returned: a move is sent to the site with make_move and,
\* when make_move succeeds, the move count is stored
PgSubmit ==
    /\ mpc = "call" /\ gpc = "idle"
    /\ IF gret.kind = "move"
       THEN /\ moved' = Append(moved, <<game_id, gret.val, move_index(game_info)>>)
            /\ \E accepted \in BOOLEAN :
                  current_games' =
                     IF ~accepted \/ current_games[game_id] = Absent
                     THEN current_games
                     ELSE [current_games EXCEPT ![game_id].last_move_count =
                               lenOf(game_info.moves) + 1]
       ELSE UNCHANGED <<moved, current_games>>
    /\ pgReturn(game_id)
    /\ callReturned
    /\ UNCHANGED <<platform, process, is_alive, nproc, pstate, killsig, nwritten, nreq,
                   wire, out, buf, nread, outClosed, nfrag, hpc, engine_handler, gpc,
                   fpc, game_id, game_info, asked>>

MonBoot == StartEngine /\ UNCHANGED mvars
MonEngine == Engine /\ UNCHANGED <<bvars, mvars>>

MonNext ==
    \/ MonBoot /\ UNCHANGED pvars
    \/ MonStart /\ UNCHANGED pvars
    \/ (\E t \in Threads : Fetch(t)) /\ UNCHANGED pvars
    \/ CycleBegin /\ UNCHANGED pvars
    \/ CycleEnd
    \/ PgParse
    \/ PgInsert /\ UNCHANGED pvars
    \/ PgColor /\ UNCHANGED pvars
    \/ PgCount /\ UNCHANGED pvars
    \/ PgAsk /\ UNCHANGED pvars
    \/ MonSend /\ UNCHANGED pvars
    \/ MonRecv /\ UNCHANGED pvars
    \/ MonFinish /\ UNCHANGED pvars
    \/ PgSubmit /\ UNCHANGED pvars
    \/ MonEngine /\ UNCHANGED pvars

SpecMon == Init /\ [][MonNext]_vars

\* the main thread is scheduled: a step of monitor_games, process_game or
\* get_ai_move that can be taken is taken, a timeout of recv included; the
\* engine and the site owe nothing
MainStep ==
    \/ (MonStart \/ Fetch("main") \/ CycleBegin \/ PgInsert \/ PgColor
           \/ PgCount \/ PgAsk \/ MonSend \/ MonRecv \/ MonFinish \/ PgSubmit)
          /\ UNCHANGED pvars
    \/ PgParse \/ CycleEnd
FairSpecMon == SpecMon /\ WF_vars(MainStep)

(* ------------------------ properties: recv ----------------------------- *)
\* C1: a recv that passed its guard always completes, whatever the engine
\* does (silent, partial line then nothing, full line, close).
C1_RecvCompletes == (ret.exc = "pending") ~> (ret.exc # "pending")

\* C2: send, recv or check_alive ending in a write failure, a receive
\* timeout, or the detection that the process exited or closed its output
\* leaves is_alive false.
C2_FailureDegrades ==
    (/\ ret.op \in {"send", "recv", "check_alive"}
     /\ ret.exc \in {"BrokenPipeError", "TimeoutError", "PeerClosed", "dead"})
    => ~is_alive

\* C3: a completing recv returns the line when a full line is available,
\* raises TimeoutError when the stream is open and no full line is there,
\* and raises the peer-closed RuntimeError when the stream is closed empty.
RecvCompletes == hpc # "idle" /\ hpc' = "idle"
C3_RecvClassifies ==
    [][RecvCompletes =>
        /\ HasNL(buf \o out) =>
              /\ ret'.exc = "none"
              /\ ret'.val = Strip(SubSeq(buf \o out, 1, FirstNL(buf \o out)))
        /\ (~HasNL(buf \o out) /\ ~AtEOF) => ret'.exc = "TimeoutError"
        /\ (buf \o out = <<>> /\ AtEOF) =>
              (ret'.exc = "PeerClosed" /\ ExcClass(ret'.exc) = "RuntimeError")]_vars

(* ------------------------ properties: kill ----------------------------- *)
\* C8: after kill returns or raises is_alive is false; kill on a handle that
\* was never started, is already killed or has exited does not fault and
\* ends in the same state; a kill that returns leaves the process exited,
\* by SIGKILL when it ignored SIGTERM.
C8_KillTerminal ==
    /\ [](ret.op = "kill" => ~is_alive)
    /\ [](ret.op = "kill" /\ ret.exc = "none" /\ process # 0
            => pstate[process] = "exited")
    /\ [][(HKill /\ (process = 0 \/ pstate[process] # "running"))
            => (/\ ret'.exc = "none" /\ ~is_alive'
                /\ UNCHANGED <<process, nproc, pstate, killsig, out, buf, nread>>)]_vars
C8_Witness ==
    /\ ret.op = "kill" /\ ret.exc = "none" /\ process # 0
    /\ killsig[process] = "KILL" /\ pstate[process] = "exited"

(* ---------------------- properties: send, recv guard ------------------- *)
\* C9: send and recv on a channel that is not running raise the
\* not-started RuntimeError, write and read nothing and change no state; a
\* write failure on a running channel clears is_alive and is raised.
C9_ClosedChannel ==
    /\ [][((HSend \/ RecvEnter) /\ (~is_alive \/ process = 0))
            => (/\ ret'.exc = "NotStarted" /\ ExcClass(ret'.exc) = "RuntimeError"
                /\ hpc' = "idle"
                /\ UNCHANGED <<process, is_alive, nproc, pstate, killsig, nwritten, nreq,
                               wire, out, buf, nread, outClosed, nfrag>>)]_vars
    /\ [][(HSend /\ is_alive /\ process # 0 /\ pstate[process] = "exited")
            => (ret'.exc = "BrokenPipeError" /\ ~is_alive'
                /\ UNCHANGED <<nwritten, nreq, wire>>)]_vars
C9_Witness ==
    /\ ret.op = "send" /\ ret.exc = "NotStarted" /\ ~is_alive
    /\ process # 0 /\ pstate[process] = "running"
(* --------------------- properties: get_ai_move ------------------------- *)
\* C4: get_ai_move hands its caller a two-character move or None, never an
\* exception, whatever the engine, the spawn and kill do.
C4_NoFaultEscapes ==
    /\ gret.kind \in {"none", "move", "None"}
    /\ gret.kind = "move" => Len(gret.val) = 2
\* the handler's own restart raised (its kill failed, the process still runs)
C4_Witness ==
    /\ gpc = "idle" /\ gret.kind = "None" /\ errKind = "TimeoutError"
    /\ ~errSpawn /\ ~is_alive /\ pstate[process] = "running"

\* C5: when the engine had exited before the call, the call goes on to
\* interactive only with a handle on an instance spawned after the dead
\* one; the request is written to and the answer read from that instance,
\* a move it returns was read from it, and a call that could not respawn
\* leaves the channel not alive and returns None.
C5_FreshAfterExit ==
    entryDead =>
        /\ gpc \in {"send", "recv"} =>
              (process > entryProc /\ pstate[entryProc] = "exited")
        /\ sentTo # 0 => sentTo > entryProc
        /\ gpc = "recv" => process = sentTo
        /\ (gpc = "idle" /\ gret.kind = "move") => (sentTo > entryProc /\ process = sentTo)
        /\ (gpc = "idle" /\ sentTo = 0 /\ errKind = "none") =>
              (~is_alive /\ gret.kind = "None")
C5_Witness ==
    /\ entryDead /\ gpc = "idle" /\ gret.kind = "move"
    /\ sentTo = process /\ sentTo > entryProc /\ pstate[entryProc] = "exited"

\* C6: a call whose request ended in a timeout, a closed stream or a write
\* failure returns None after restarting; when the kill returned and the
\* spawn succeeded the channel is alive on a new instance and the old
\* instance has exited.
C6_RestartOnError ==
    (gpc = "idle" /\ errKind \in {"TimeoutError", "PeerClosed", "BrokenPipeError"}) =>
        /\ gret.kind = "None"
        /\ errSpawn =>
              /\ is_alive
              /\ process > errProc
              /\ errProc # 0 /\ pstate[errProc] = "exited"
C6_Witness ==
    /\ gpc = "idle" /\ errKind = "PeerClosed" /\ errSpawn
    /\ is_alive /\ process > errProc /\ gret.kind = "None"

\* C7: one get_ai_move call writes to an engine's stdin at most once, and
\* its except clauses write nothing after restarting.
C7_NoRetry == callSends <= 1 /\ ~retried
C7_Witness ==
    /\ gpc = "idle" /\ errKind = "TimeoutError" /\ errSpawn /\ is_alive
    /\ callSends = 1 /\ sentTo = errProc /\ process > errProc

(* ------------------------ properties: requests ------------------------- *)
\* C10: every write to the engine's stdin is exactly one line: it ends with
\* a newline and holds no other newline.
C10_OneLine ==
    nwritten > 0 =>
        (EndsWithNL(wire) /\ ~HasNL(SubSeq(wire, 1, Len(wire) - 1)))

(* --------------------- properties: parse_game_page --------------------- *)
\* C15: for a page whose argument list is well formed and has 13 segments,
\* parse_game_page returns exactly the literal values of the page: every
\* quoted string without its quotes and otherwise unchanged, the moves in
\* order, the fields of positions 0-6, 11 and 12.
C15_ExactRecovery ==
    (parsed.done /\ page.src # NoSrc) => parsed.info = pageFields(page.src)

\* the character at i follows an odd run of backslashes
EscapedAt(s, i) ==
    LET first == CHOOSE j \in 0..(i - 1) :
                     /\ \A k \in (j + 1)..(i - 1) : s[k] = "\\"
                     /\ j = 0 \/ s[j] # "\\"
    IN  (i - 1 - first) % 2 = 1
\* index i lies in a quoted run: an odd number of unescaped quotes precede it
InQuotes(s, i) ==
    Cardinality({j \in 1..(i - 1) : s[j] = QUOTE /\ ~EscapedAt(s, j)}) % 2 = 1
\* brackets opened less brackets closed before index i
DepthAt(s, i) ==
    LET live == {j \in 1..(i - 1) : ~EscapedAt(s, j) /\ ~InQuotes(s, j)}
    IN  Cardinality({j \in live : s[j] \in Openers})
            - Cardinality({j \in live : s[j] \in Closers})
\* the commas at depth 0 outside quoted runs
OpenCommas(s) ==
    {i \in 1..Len(s) : s[i] = "," /\ DepthAt(s, i) = 0 /\ ~InQuotes(s, i)}
\* the segments of s cut at the commas of B, from index from on
RECURSIVE SegmentsAt(_, _, _)
SegmentsAt(s, B, from) ==
    LET nb == {b \in B : b >= from} IN
    IF nb = {}
    THEN (IF Strip(SubSeq(s, from, Len(s))) = <<>> THEN <<>>
          ELSE <<Strip(SubSeq(s, from, Len(s)))>>)
    ELSE LET b == CHOOSE x \in nb : \A y \in nb : x <= y IN
         <<Strip(SubSeq(s, from, b - 1))>> \o SegmentsAt(s, B, b + 1)

\* C16 as stated: the scanner ends a segment at a comma if and only if the
\* comma is at bracket depth 0 and outside a quoted run.
C16_CommaBoundary ==
    parsed.done => parsed.params = SegmentsAt(parsed.pre, OpenCommas(parsed.pre), 1)

\* C16 amended: the scanner ends a segment at a comma if and only if the
\* comma is at bracket depth 0, outside a quoted run and not itself escaped
\* by a backslash; escaped quotes do not toggle the quoted run and commas of
\* strings inside arrays do not split.
C16_UnescapedCommaBoundary ==
    parsed.done =>
        parsed.params =
            SegmentsAt(parsed.pre,
                       {i \in OpenCommas(parsed.pre) : ~EscapedAt(parsed.pre, i)}, 1)
\* a text with an escaped quote inside a string, a comma after it in the
\* same string, scanned as one segment
C16_Witness ==
    /\ parsed.done
    /\ Len(parsed.params) = 1
    /\ \E i \in 1..Len(parsed.pre) :
           /\ parsed.pre[i] = "," /\ InQuotes(parsed.pre, i)
           /\ \E j \in 1..(i - 1) : parsed.pre[j] = QUOTE /\ EscapedAt(parsed.pre, j)

(* ----------------------- properties: move lines ------------------------ *)
\* the line without the prompt decoration at its start
PrefixStripped(line) ==
    IF StartsWith(line, Prompt) THEN SubSeq(line, Len(Prompt) + 1, Len(line))
    ELSE line
\* C12: get_ai_move returns a move only when the engine's line, with
\* "Board > " stripped as a prefix, is exactly two characters, and then
\* returns those two characters; every other line yields None.
C12_PrefixMove ==
    answer.kind # "none" =>
        LET rest == PrefixStripped(Strip(reply)) IN
        answer = IF Len(rest) = 2 THEN GRet("move", rest) ELSE GRet("None", <<>>)

(* ----------------------- properties: teardown -------------------------- *)
\* C19: after cleanup no engine process the bot spawned is still running,
\* and at any time at most one engine process the bot spawned is running.
C19_EngineDestroyed ==
    /\ gpc = "done" => \A p \in Procs : pstate[p] # "running"
    /\ Cardinality({p \in Procs : pstate[p] = "running"}) <= 1

(* ------------------------ properties: monitor ------------------------- *)
\* C11: the engine channel has one owner and one request in flight: a step
\* of the refresh thread changes nothing of the ProcessHandler or of the
\* engine's pipes, and nothing is written to an engine while a request
\* written earlier still awaits the outcome of its recv.
C11_SingleOwner ==
    [][/\ Fetch("refresh") => UNCHANGED hvars
       /\ nwritten' # nwritten => (ret.exc # "pending" /\ hpc = "idle")]_vars
\* the refresh thread dropped the game while its request was in flight
C11_Witness ==
    /\ mpc = "call" /\ ret.exc = "pending" /\ sentTo # 0
    /\ current_games[game_id] = Absent

\* C17: a page with fewer than 13 values, or without the call, yields None
\* and no partly filled record, and the process_game call that read it asks
\* the engine nothing and submits no move.
C17_NoRecordNoMove ==
    game_id # 0 =>
        /\ (~matchArgs(page.marker, page.body).found
                \/ Len(parsed.params) < MinParams) => game_info = NoneV
        /\ game_info = NoneV => (asked = <<>> /\ moved = <<>> /\ mpc = "next")
\* a page with 12 values was read while the engine was ready
C17_Witness ==
    /\ game_id # 0 /\ page.ok /\ matchArgs(page.marker, page.body).found
    /\ Len(parsed.params) = MinParams - 1
    /\ is_alive /\ pstate[process] = "running" /\ game_info = NoneV

\* C14: a move goes to the site only as the two-character answer that
\* get_ai_move returned for the moves of the page joined in order, at most
\* once in a process_game call, with the number of those moves plus 1 as
\* its index.
C14_SubmitOnce ==
    [][(moved' # moved /\ moved' # <<>>) =>
          /\ moved = <<>>
          /\ gret.kind = "move" /\ Len(gret.val) = 2
          /\ position = Concat(page.src.moves) /\ asked = <<position>>
          /\ moved' = << <<game_id, gret.val, Len(page.src.moves) + 1>> >>]_vars
\* a move was submitted for a game whose page shows two moves
C14_Witness ==
    /\ moved # <<>> /\ page.src.moves = <<F5, D6>> /\ moved[1][3] = 3
    /\ asked = <<F5 \o D6>>

\* C13: a process_game call that parsed a record has asked the engine, when
\* it returns, if and only if the page's turn is our colour (black for role
\* 1, white otherwise), and a call made when it is not our turn asks
\* nothing and submits nothing.
C13_AsksIffOurTurn ==
    LET ours == page.src.turn = (IF page.src.role = <<"1">> THEN Black ELSE White)
    IN  (game_id # 0 /\ game_info # NoneV) =>
            /\ mpc = "next" => (asked # <<>> <=> ours)
            /\ ~ours => (asked = <<>> /\ moved = <<>>)

\* C20: the refresh and the main loop do not race on the map: a game enters
\* the map only as the fresh entry that fetch_current_games makes for a
\* listed game, so process_game never puts back a game that the refresh
\* removed, and a refresh leaves the entry of a game it keeps as
\* process_game wrote it.
C20_NoRace ==
    [][\A g \in Games :
          /\ (current_games[g] = Absent /\ current_games'[g] # Absent)
                 => current_games'[g] = Fresh
          /\ (Fetch("refresh") /\ current_games[g] # Absent
                 /\ current_games'[g] # Absent)
                 => current_games'[g] = current_games[g]]_vars

\* C18: whatever fails in a process_game call, the games of the cycle's
\* snapshot are all processed and the loop comes back to the start of a
\* cycle (up to the model's cap on requests).
C18_LoopGoesOn ==
    LET capped == mpc = "ask" /\ nwritten = MaxSend IN
    /\ \A g \in Games : (g \in todo) ~> (g \notin todo \/ capped)
    /\ (mpc = "next") ~> (mpc = "cycle" \/ capped)

(* ------------------------ properties: replies ------------------------- *)
\* C21: with an engine that writes at most one line per request, the line
\* get_ai_move returns as a move is the answer to the request of that call
\* (the k-th line of the process for the k-th request written to it), and
\* when a call ended in an except clause the process it ran on is no longer
\* the one requests go to: it was replaced, or the channel is not alive.
C21_OwnReply ==
    /\ (gpc = "idle" /\ gret.kind = "move")
           => (sentTo # 0 /\ nread[sentTo] = nreq[sentTo])
    /\ (gpc = "idle" /\ errKind # "none")
           => (~is_alive \/ process # errProc)
\* the first engine never answered its request and was killed, the second
\* engine answered the request of a later call
C21_Witness ==
    /\ gpc = "idle" /\ gret.kind = "move" /\ sentTo = 2
    /\ nreq[1] = 1 /\ nread[1] = 0 /\ killsig[1] # "none"

(* ------------------------ properties: outage --------------------------- *)
\* C22: once get_ai_move has returned with the channel not alive, no step of
\* the bot brings it back: the channel stays not alive, no process is
\* spawned, killed or polled by the handler, nothing more is written to an
\* engine, every get_ai_move call returns None at once with no except clause
\* run, and no move is submitted to the site.
C22_DownForGood ==
    [][(engine_handler /\ gpc = "idle" /\ ~is_alive)
          => /\ gpc' = "idle" /\ ~is_alive'
             /\ process' = process /\ nproc' = nproc /\ killsig' = killsig
             /\ nwritten' = nwritten /\ nreq' = nreq
             /\ gret'.kind # "move" /\ errKind' \in {errKind, "none"}
             /\ Len(moved') <= Len(moved)]_vars
\* a restart did not respawn the engine and a later get_ai_move call, made
\* for a game where it is our turn, returned None at its first guard
C22_Witness ==
    /\ mpc = "call" /\ gpc = "idle" /\ gret.kind = "None"
    /\ engine_handler /\ ~is_alive /\ entryProc # 0 /\ ~entryDead
    /\ pstate[entryProc] = "exited" /\ killsig[entryProc] # "none"
    /\ errKind = "none" /\ callSends = 0
====
